---- MODULE Spec2Model ----
(***************************************************************************)
(* Model of the Paygent Go SDK client (client.go): the price table, the    *)
(* cost calculator, the tokenizer resolver and the two report calls        *)
(* SendUsage and SendUsageWithTokenString together with the collaborators  *)
(* they call (tiktoken, encoding/json, net/http).                          *)
(*                                                                         *)
(* float64 amounts are modelled as exact decimals m * 10^(-e); binary      *)
(* rounding of float64 is not modelled.  Model identifiers and texts are   *)
(* strings, inspected character by character with SubSeq.                  *)
(***************************************************************************)
EXTENDS Integers, Sequences, FiniteSets, TLC

(***************************************************************************)
(* Bounds of the model                                                     *)
(***************************************************************************)
\* exhaustive texts over Alphabet have at most this many characters
MaxTextLen == 3
\* token counts passed by callers range over -1..MaxTokens and a few large ones
MaxTokens == 2

(***************************************************************************)
(* Decimal arithmetic standing for float64                                 *)
(***************************************************************************)
RECURSIVE Pow10(_)
Pow10(n) == IF n <= 0 THEN 1 ELSE 10 * Pow10(n - 1)

\* the decimal m * 10^(-e), in normal form: m carries no trailing zero
RECURSIVE Dec(_, _)
Dec(m, e) ==
    IF m = 0 THEN [m |-> 0, e |-> 0]
    ELSE IF m % 10 = 0 THEN Dec(m \div 10, e - 1)
    ELSE [m |-> m, e |-> e]

\* float64(n)
DecOfInt(n) == Dec(n, 0)

\* a * b
DecMul(a, b) == Dec(a.m * b.m, a.e + b.e)

\* a / 1000.0
DecDiv1000(a) == Dec(a.m, a.e + 3)

\* a + b
DecAdd(a, b) ==
    LET E == IF a.e >= b.e THEN a.e ELSE b.e
    IN  IF a.m = 0 THEN b
        ELSE IF b.m = 0 THEN a
        ELSE Dec(a.m * Pow10(E - a.e) + b.m * Pow10(E - b.e), E)

\* a - b
DecSub(a, b) == DecAdd(a, Dec(0 - b.m, b.e))

\* a < 0, a >= 0
DecNeg(a) == a.m < 0
DecNonNeg(a) == a.m >= 0

(***************************************************************************)
(* The price table                                                         *)
(***************************************************************************)
\* a ModelPricing holding the negated costs
PriceNegated(p, c) ==
    [PromptTokensCost |-> Dec(0 - p.m, p.e),
     CompletionTokensCost |-> Dec(0 - c.m, c.e)]

\* type ModelPricing
Price(p, c) == [PromptTokensCost |-> p, CompletionTokensCost |-> c]

\* the composite literal that initialises var modelPricing, keyed by the name
\* of the Go constant that is its key
modelPricingInit ==
    ("GPT5" :> Price(Dec(125, 5), Dec(1, 2)))
 @@ ("GPT5Mini" :> Price(Dec(25, 5), Dec(2, 3)))
 @@ ("GPT5Nano" :> Price(Dec(5, 5), Dec(4, 4)))
 @@ ("GPT5ChatLatest" :> Price(Dec(125, 5), Dec(1, 2)))
 @@ ("GPT5Codex" :> Price(Dec(125, 5), Dec(1, 2)))
 @@ ("GPT5Pro" :> Price(Dec(15, 3), Dec(12, 2)))
 @@ ("GPT5SearchAPI" :> Price(Dec(125, 5), Dec(1, 2)))
 @@ ("GPT41" :> Price(Dec(2, 3), Dec(8, 3)))
 @@ ("GPT41Mini" :> Price(Dec(4, 4), Dec(16, 4)))
 @@ ("GPT41Nano" :> Price(Dec(1, 4), Dec(4, 4)))
 @@ ("GPT4O" :> Price(Dec(25, 4), Dec(1, 2)))
 @@ ("GPT4O20240513" :> Price(Dec(5, 3), Dec(15, 3)))
 @@ ("GPT4OMini" :> Price(Dec(15, 5), Dec(6, 4)))
 @@ ("GPTRealtime" :> Price(Dec(4, 3), Dec(16, 3)))
 @@ ("GPTRealtimeMini" :> Price(Dec(6, 4), Dec(24, 4)))
 @@ ("GPT4ORealtimePreview" :> Price(Dec(5, 3), Dec(2, 2)))
 @@ ("GPT4OMiniRealtimePreview" :> Price(Dec(6, 4), Dec(24, 4)))
 @@ ("GPTAudio" :> Price(Dec(25, 4), Dec(1, 2)))
 @@ ("GPTAudioMini" :> Price(Dec(6, 4), Dec(24, 4)))
 @@ ("GPT4OAudioPreview" :> Price(Dec(25, 4), Dec(1, 2)))
 @@ ("GPT4OMiniAudioPreview" :> Price(Dec(15, 5), Dec(6, 4)))
 @@ ("O1" :> Price(Dec(15, 3), Dec(6, 2)))
 @@ ("O1Pro" :> Price(Dec(15, 2), Dec(6, 1)))
 @@ ("O3Pro" :> Price(Dec(2, 2), Dec(8, 2)))
 @@ ("O3" :> Price(Dec(2, 3), Dec(8, 3)))
 @@ ("O3DeepResearch" :> Price(Dec(1, 2), Dec(4, 2)))
 @@ ("O4Mini" :> Price(Dec(11, 4), Dec(44, 4)))
 @@ ("O4MiniDeepResearch" :> Price(Dec(2, 3), Dec(8, 3)))
 @@ ("O3Mini" :> Price(Dec(11, 4), Dec(44, 4)))
 @@ ("O1Mini" :> Price(Dec(11, 4), Dec(44, 4)))
 @@ ("CodexMiniLatest" :> Price(Dec(15, 4), Dec(6, 3)))
 @@ ("GPT4OMiniSearchPreview" :> Price(Dec(15, 5), Dec(6, 4)))
 @@ ("GPT4OSearchPreview" :> Price(Dec(25, 4), Dec(1, 2)))
 @@ ("ComputerUsePreview" :> Price(Dec(3, 3), Dec(12, 3)))
 @@ ("ChatGPT4OLatest" :> Price(Dec(5, 3), Dec(15, 3)))
 @@ ("GPT4Turbo20240409" :> Price(Dec(1, 2), Dec(3, 2)))
 @@ ("GPT40125Preview" :> Price(Dec(1, 2), Dec(3, 2)))
 @@ ("GPT41106Preview" :> Price(Dec(1, 2), Dec(3, 2)))
 @@ ("GPT41106VisionPreview" :> Price(Dec(1, 2), Dec(3, 2)))
 @@ ("GPT40613" :> Price(Dec(3, 2), Dec(6, 2)))
 @@ ("GPT40314" :> Price(Dec(3, 2), Dec(6, 2)))
 @@ ("GPT432K" :> Price(Dec(6, 2), Dec(12, 2)))
 @@ ("GPT35Turbo" :> Price(Dec(5, 4), Dec(15, 4)))
 @@ ("GPT35Turbo0125" :> Price(Dec(5, 4), Dec(15, 4)))
 @@ ("GPT35Turbo1106" :> Price(Dec(1, 3), Dec(2, 3)))
 @@ ("GPT35Turbo0613" :> Price(Dec(15, 4), Dec(2, 3)))
 @@ ("GPT350301" :> Price(Dec(15, 4), Dec(2, 3)))
 @@ ("GPT35TurboInstruct" :> Price(Dec(15, 4), Dec(2, 3)))
 @@ ("GPT35Turbo16K0613" :> Price(Dec(3, 3), Dec(4, 3)))
 @@ ("Davinci002" :> Price(Dec(2, 3), Dec(2, 3)))
 @@ ("Babbage002" :> Price(Dec(4, 4), Dec(4, 4)))
 @@ ("Sonnet45" :> Price(Dec(3, 3), Dec(15, 3)))
 @@ ("Haiku45" :> Price(Dec(1, 3), Dec(5, 3)))
 @@ ("Opus41" :> Price(Dec(15, 3), Dec(75, 3)))
 @@ ("Sonnet4" :> Price(Dec(3, 3), Dec(15, 3)))
 @@ ("Opus4" :> Price(Dec(15, 3), Dec(75, 3)))
 @@ ("Sonnet37" :> Price(Dec(3, 3), Dec(15, 3)))
 @@ ("Haiku35" :> Price(Dec(8, 4), Dec(4, 3)))
 @@ ("Opus3" :> Price(Dec(15, 3), Dec(75, 3)))
 @@ ("Haiku3" :> Price(Dec(25, 5), Dec(125, 5)))
 @@ ("Gemini25Pro" :> Price(Dec(125, 5), Dec(1, 2)))
 @@ ("Gemini25Flash" :> Price(Dec(15, 5), Dec(6, 4)))
 @@ ("Gemini25FlashPreview" :> Price(Dec(3, 1), Dec(25, 1)))
 @@ ("Gemini25FlashLite" :> Price(Dec(1, 4), Dec(4, 4)))
 @@ ("Gemini25FlashLitePreview" :> Price(Dec(1, 4), Dec(4, 4)))
 @@ ("Gemini25FlashNativeAudio" :> Price(Dec(5, 4), Dec(2, 3)))
 @@ ("Gemini25FlashImage" :> Price(Dec(3, 4), Dec(3, 2)))
 @@ ("Gemini25FlashPreviewTTS" :> Price(Dec(5, 4), Dec(1, 2)))
 @@ ("Gemini25ProPreviewTTS" :> Price(Dec(1, 3), Dec(2, 2)))
 @@ ("Gemini25ComputerUsePreview" :> Price(Dec(125, 5), Dec(1, 2)))
 @@ ("Llama4Maverick" :> Price(Dec(27, 5), Dec(85, 5)))
 @@ ("Llama4Scout" :> Price(Dec(18, 5), Dec(59, 5)))
 @@ ("Llama3370BInstructTurbo" :> Price(Dec(88, 5), Dec(88, 5)))
 @@ ("Llama323BInstructTurbo" :> Price(Dec(6, 5), Dec(6, 5)))
 @@ ("Llama31405BInstructTurbo" :> Price(Dec(35, 4), Dec(35, 4)))
 @@ ("Llama3170BInstructTurbo" :> Price(Dec(88, 5), Dec(88, 5)))
 @@ ("Llama318BInstructTurbo" :> Price(Dec(18, 5), Dec(18, 5)))
 @@ ("Llama370BInstructTurbo" :> Price(Dec(88, 5), Dec(88, 5)))
 @@ ("Llama370BInstructReference" :> Price(Dec(88, 5), Dec(88, 5)))
 @@ ("Llama38BInstructLite" :> Price(Dec(1, 4), Dec(1, 4)))
 @@ ("LLaMA2" :> Price(Dec(9, 4), Dec(9, 4)))
 @@ ("LlamaGuard412B" :> Price(Dec(2, 4), Dec(2, 4)))
 @@ ("LlamaGuard311BVisionTurbo" :> Price(Dec(18, 5), Dec(18, 5)))
 @@ ("LlamaGuard38B" :> Price(Dec(2, 4), Dec(2, 4)))
 @@ ("LlamaGuard28B" :> Price(Dec(2, 4), Dec(2, 4)))
 @@ ("SalesforceLlamaRankV18B" :> Price(Dec(1, 4), Dec(1, 4)))
 @@ ("AmazonNovaMicro" :> Price(Dec(35, 3), Dec(14, 2)))
 @@ ("AmazonNovaLite" :> Price(Dec(6, 2), Dec(24, 2)))
 @@ ("AmazonNovaPro" :> Price(Dec(8, 1), Dec(32, 1)))
 @@ ("Mistral7BInstruct" :> Price(Dec(28, 3), Dec(54, 3)))
 @@ ("MistralLarge" :> Price(Dec(20, 1), Dec(60, 1)))
 @@ ("MistralSmall" :> Price(Dec(2, 1), Dec(6, 1)))
 @@ ("MistralMedium" :> Price(Dec(4, 1), Dec(20, 1)))
 @@ ("CommandR7B" :> Price(Dec(375, 7), Dec(15, 5)))
 @@ ("CommandR" :> Price(Dec(15, 5), Dec(6, 4)))
 @@ ("CommandRPlus" :> Price(Dec(250, 5), Dec(1, 2)))
 @@ ("CommandA" :> Price(Dec(1, 3), Dec(2, 3)))
 @@ ("AyaExpanse8B32B" :> Price(Dec(50, 5), Dec(150, 5)))
 @@ ("DeepSeekChat" :> Price(Dec(7, 5), Dec(27, 5)))
 @@ ("DeepSeekReasoner" :> Price(Dec(14, 5), Dec(219, 5)))
 @@ ("DeepSeekR1Global" :> Price(Dec(135, 5), Dec(54, 4)))
 @@ ("DeepSeekR1DataZone" :> Price(Dec(1485, 6), Dec(594, 5)))
 @@ ("DeepSeekV32Exp" :> Price(Dec(28, 6), Dec(42, 5)))

\* The string value of the key constants, as the README documents them:
\* model identifier |-> name of the Go constant
ModelConst ==
    ("gpt-5" :> "GPT5")
 @@ ("gpt-5-mini" :> "GPT5Mini")
 @@ ("gpt-5-nano" :> "GPT5Nano")
 @@ ("gpt-5-pro" :> "GPT5Pro")
 @@ ("gpt-4.1" :> "GPT41")
 @@ ("gpt-4.1-mini" :> "GPT41Mini")
 @@ ("gpt-4o" :> "GPT4O")
 @@ ("gpt-4o-mini" :> "GPT4OMini")
 @@ ("o1" :> "O1")
 @@ ("o1-pro" :> "O1Pro")
 @@ ("o3-pro" :> "O3Pro")
 @@ ("o3" :> "O3")
 @@ ("gpt-3.5-turbo" :> "GPT35Turbo")
 @@ ("gpt-4-0613" :> "GPT40613")
 @@ ("davinci-002" :> "Davinci002")
 @@ ("babbage-002" :> "Babbage002")
 @@ ("sonnet-4.5" :> "Sonnet45")
 @@ ("haiku-4.5" :> "Haiku45")
 @@ ("opus-4.1" :> "Opus41")
 @@ ("sonnet-4" :> "Sonnet4")
 @@ ("opus-4" :> "Opus4")
 @@ ("sonnet-3.7" :> "Sonnet37")
 @@ ("haiku-3.5" :> "Haiku35")
 @@ ("opus-3" :> "Opus3")
 @@ ("haiku-3" :> "Haiku3")
 @@ ("gemini-2.5-pro" :> "Gemini25Pro")
 @@ ("gemini-2.5-flash" :> "Gemini25Flash")
 @@ ("gemini-2.5-flash-preview" :> "Gemini25FlashPreview")
 @@ ("gemini-2.5-flash-lite" :> "Gemini25FlashLite")
 @@ ("gemini-2.5-flash-lite-preview" :> "Gemini25FlashLitePreview")
 @@ ("gemini-2.5-flash-native-audio" :> "Gemini25FlashNativeAudio")
 @@ ("gemini-2.5-flash-image" :> "Gemini25FlashImage")
 @@ ("gemini-2.5-flash-preview-tts" :> "Gemini25FlashPreviewTTS")
 @@ ("gemini-2.5-pro-preview-tts" :> "Gemini25ProPreviewTTS")
 @@ ("gemini-2.5-computer-use-preview" :> "Gemini25ComputerUsePreview")
 @@ ("amazon-nova-micro" :> "AmazonNovaMicro")
 @@ ("amazon-nova-lite" :> "AmazonNovaLite")
 @@ ("amazon-nova-pro" :> "AmazonNovaPro")
 @@ ("mistral-7b-instruct" :> "Mistral7BInstruct")
 @@ ("mistral-large" :> "MistralLarge")
 @@ ("mistral-small" :> "MistralSmall")
 @@ ("mistral-medium" :> "MistralMedium")
 @@ ("command-r7b" :> "CommandR7B")
 @@ ("command-r" :> "CommandR")
 @@ ("command-r-plus" :> "CommandRPlus")
 @@ ("command-a" :> "CommandA")
 @@ ("deepseek-chat" :> "DeepSeekChat")
 @@ ("deepseek-reasoner" :> "DeepSeekReasoner")
 @@ ("deepseek-r1-global" :> "DeepSeekR1Global")
 @@ ("deepseek-r1-datazone" :> "DeepSeekR1DataZone")
 @@ ("deepseek-v3.2-exp" :> "DeepSeekV32Exp")

(***************************************************************************)
(* Inputs                                                                  *)
(***************************************************************************)
\* identifiers absent from the price table: GPT-family, other families in
\* several letter cases, identifiers of no family, and keys of the table with
\* letters in capitals, cut short, or with something put before or after
OtherModels ==
    {"gpt-4", "GPT-4O", "claude-3-sonnet", "Gemini-Pro", "llama", "LLAMA-3-8b",
     "mistral-7b", "command", "deepseek", "titan-text-lite",
     "unknown-model", "custom-model", "Sonnet-4.5", "",
     "gpt-4o-custom", "openai/gpt-4o"}

Models == DOMAIN ModelConst \cup OtherModels

\* the models the report calls are exercised with
ReportModels ==
    {"gpt-4o", "sonnet-4.5", "claude-3-sonnet", "mistral-large", "unknown-model"}

TokenCounts == (-1 .. MaxTokens) \cup {500, 1000}

Alphabet == {"a", " ", "\t"}

RECURSIVE StringsUpTo(_)
StringsUpTo(n) ==
    IF n = 0 THEN {""}
    ELSE LET S == StringsUpTo(n - 1)
         IN  S \cup {s \o c : s \in {t \in S : Len(t) = n - 1}, c \in Alphabet}

SampleTexts == {"test text", "hello world test", "a b c d", " \t \n "}

Texts == StringsUpTo(MaxTextLen) \cup SampleTexts

ReportTexts == {"", "ab", "a b c d"}

(***************************************************************************)
(* strings                                                                 *)
(***************************************************************************)
CharAt(s, i) == SubSeq(s, i, i)

UpperLetters == "ABCDEFGHIJKLMNOPQRSTUVWXYZ"
LowerLetters == "abcdefghijklmnopqrstuvwxyz"

\* upper-case letter |-> its lower-case letter
LowerOf ==
    [c \in {CharAt(UpperLetters, i) : i \in 1..26} |->
        CharAt(LowerLetters, CHOOSE i \in 1..26 : CharAt(UpperLetters, i) = c)]

LowerChar(c) == IF c \in DOMAIN LowerOf THEN LowerOf[c] ELSE c

\* the characters of s from position i on, in lower case
RECURSIVE ToLowerFrom(_, _)
ToLowerFrom(s, i) ==
    IF i > Len(s) THEN ""
    ELSE LowerChar(CharAt(s, i)) \o ToLowerFrom(s, i + 1)

\* strings.ToLower
ToLower(s) == ToLowerFrom(s, 1)

\* strings.HasPrefix
HasPrefix(s, prefix) ==
    Len(s) >= Len(prefix) /\ SubSeq(s, 1, Len(prefix)) = prefix

\* unicode.IsSpace, on the characters the texts are made of
IsSpace(c) == c \in {" ", "\t", "\n", "\r"}

\* len(strings.Fields(text)): the number of maximal runs of non-space characters
Fields(text) ==
    Cardinality({i \in 1..Len(text) :
                    /\ ~IsSpace(CharAt(text, i))
                    /\ (i = 1 \/ IsSpace(CharAt(text, i - 1)))})

(***************************************************************************)
(* Cost calculator                                                         *)
(***************************************************************************)
\* a default that prices completion tokens at 0.20
DefaultPricingUneven == Price(Dec(1, 1), Dec(2, 1))

\* the default ModelPricing substituted for a model without an entry
DefaultPricing == Price(Dec(1, 1), Dec(1, 1))

\* PricingOf looking the model up in lower case
PricingOfIgnoringCase(table, model) ==
    IF ToLower(model) \in DOMAIN ModelConst
          /\ ModelConst[ToLower(model)] \in DOMAIN table
    THEN table[ModelConst[ToLower(model)]]
    ELSE DefaultPricing

\* pricing, exists := modelPricing[model]
PricingExists(table, model) ==
    model \in DOMAIN ModelConst /\ ModelConst[model] \in DOMAIN table

\* the entry of the model, or the default
PricingOf(table, model) ==
    IF PricingExists(table, model) THEN table[ModelConst[model]]
    ELSE DefaultPricing

\* TokensCost with the division done on integers: tokens / 1000 * cost
TokensCostIntegerDivision(tokens, costPerThousand) ==
    DecMul(DecOfInt(tokens \div 1000), costPerThousand)

\* (float64(tokens) / 1000.0) * costPerThousand
TokensCost(tokens, costPerThousand) ==
    DecMul(DecDiv1000(DecOfInt(tokens)), costPerThousand)

\* calculateCost signalling an unknown model as an error
calculateCostRejectingUnknown(table, model, usageData) ==
    LET pricing == PricingOf(table, model)
        promptCost == TokensCost(usageData.PromptTokens, pricing.PromptTokensCost)
        completionCost ==
            TokensCost(usageData.CompletionTokens, pricing.CompletionTokensCost)
    IN  IF ~PricingExists(table, model)
        THEN [cost |-> Dec(0, 0), err |-> "unknown model"]
        ELSE [cost |-> DecAdd(promptCost, completionCost), err |-> "nil"]

\* func (c *Client) calculateCost(model, usageData) (float64, error)
calculateCost(table, model, usageData) ==
    LET pricing == PricingOf(table, model)
        promptCost == TokensCost(usageData.PromptTokens, pricing.PromptTokensCost)
        completionCost ==
            TokensCost(usageData.CompletionTokens, pricing.CompletionTokensCost)
    IN  [cost |-> DecAdd(promptCost, completionCost), err |-> "nil"]

(***************************************************************************)
(* Tokenizer resolver                                                      *)
(***************************************************************************)
\* The tiktoken library is outside the repository.  What it answers is an
\* input of each call: the encoding it maps the model to (dedicated), and for
\* each lookup whether the encoding could be loaded.
Encodings == {"cl100k_base", "o200k_base"}
\* generic is consulted only after forModel failed
LibOutcomes == {l \in [forModel : BOOLEAN, generic : BOOLEAN] :
                    l.forModel => l.generic}

\* len(encoding.Encode(text, nil, nil)): a deterministic count per encoding,
\* at least 1 for a non-empty text.  The byte-pair merges themselves are not
\* modelled: cl100k_base counts characters, o200k_base pairs of characters.
EncodeLen(encoding, text) ==
    IF encoding = "cl100k_base" THEN Len(text) ELSE (Len(text) + 1) \div 2

\* fallbackTokenCount without the case of a text that holds no word
fallbackTokenCountNoMinimum(text) == (13 * Fields(text)) \div 10

\* fallbackTokenCount giving 2 for a text that holds no word
fallbackTokenCountBlankAsTwo(text) ==
    LET words == Fields(text)
    IN  IF words = 0 THEN 2 ELSE (13 * words) \div 10

\* func (c *Client) fallbackTokenCount(text string) int
fallbackTokenCount(text) ==
    LET words == Fields(text)
    IN  IF words = 0 THEN 1 ELSE (13 * words) \div 10

\* the families counted with cl100k_base, in the order the code tests them
GenericFamilies ==
    <<"claude-", "gemini-", "llama", "mistral", "command", "deepseek", "titan-">>

IsGenericFamily(modelLower) ==
    \E i \in 1..Len(GenericFamilies) : HasPrefix(modelLower, GenericFamilies[i])

\* getTokenCount without the early return for an empty text
getTokenCountNoEmptyCheck(model, text, dedicated, lib) ==
    LET modelLower == ToLower(model)
    IN  IF HasPrefix(modelLower, "gpt-") THEN
            IF lib.forModel
            THEN [n |-> EncodeLen(dedicated, text), via |-> "dedicated"]
            ELSE IF lib.generic
            THEN [n |-> EncodeLen("cl100k_base", text), via |-> "generic"]
            ELSE [n |-> fallbackTokenCount(text), via |-> "unavailable"]
        ELSE IF IsGenericFamily(modelLower) THEN
            IF lib.generic
            THEN [n |-> EncodeLen("cl100k_base", text), via |-> "generic"]
            ELSE [n |-> fallbackTokenCount(text), via |-> "unavailable"]
        ELSE [n |-> fallbackTokenCount(text), via |-> "unknown"]

\* getTokenCount matching the prefixes on the identifier as given
getTokenCountCaseSensitive(model, text, dedicated, lib) ==
    IF Len(text) = 0 THEN [n |-> 0, via |-> "empty"]
    ELSE IF HasPrefix(model, "gpt-") THEN
        IF lib.forModel
        THEN [n |-> EncodeLen(dedicated, text), via |-> "dedicated"]
        ELSE IF lib.generic
        THEN [n |-> EncodeLen("cl100k_base", text), via |-> "generic"]
        ELSE [n |-> fallbackTokenCount(text), via |-> "unavailable"]
    ELSE IF IsGenericFamily(model) THEN
        IF lib.generic
        THEN [n |-> EncodeLen("cl100k_base", text), via |-> "generic"]
        ELSE [n |-> fallbackTokenCount(text), via |-> "unavailable"]
    ELSE [n |-> fallbackTokenCount(text), via |-> "unknown"]

\* getTokenCount estimating by words as soon as the model's own encoding
\* is not found
getTokenCountHeuristicForGPT(model, text, dedicated, lib) ==
    LET modelLower == ToLower(model)
    IN  IF Len(text) = 0 THEN [n |-> 0, via |-> "empty"]
        ELSE IF HasPrefix(modelLower, "gpt-") THEN
            IF lib.forModel
            THEN [n |-> EncodeLen(dedicated, text), via |-> "dedicated"]
            ELSE [n |-> fallbackTokenCount(text), via |-> "unavailable"]
        ELSE IF IsGenericFamily(modelLower) THEN
            IF lib.generic
            THEN [n |-> EncodeLen("cl100k_base", text), via |-> "generic"]
            ELSE [n |-> fallbackTokenCount(text), via |-> "unavailable"]
        ELSE [n |-> fallbackTokenCount(text), via |-> "unknown"]

\* getTokenCount counting nothing when cl100k_base cannot be loaded
getTokenCountZeroWhenUnavailable(model, text, dedicated, lib) ==
    LET modelLower == ToLower(model)
    IN  IF Len(text) = 0 THEN [n |-> 0, via |-> "empty"]
        ELSE IF HasPrefix(modelLower, "gpt-") THEN
            IF lib.forModel
            THEN [n |-> EncodeLen(dedicated, text), via |-> "dedicated"]
            ELSE IF lib.generic
            THEN [n |-> EncodeLen("cl100k_base", text), via |-> "generic"]
            ELSE [n |-> 0, via |-> "unavailable"]
        ELSE IF IsGenericFamily(modelLower) THEN
            IF lib.generic
            THEN [n |-> EncodeLen("cl100k_base", text), via |-> "generic"]
            ELSE [n |-> 0, via |-> "unavailable"]
        ELSE [n |-> fallbackTokenCount(text), via |-> "unknown"]

\* func (c *Client) getTokenCount(model, text string) int
\* n is the count returned, via the branch that produced it
getTokenCount(model, text, dedicated, lib) ==
    LET modelLower == ToLower(model)
    IN  IF Len(text) = 0 THEN [n |-> 0, via |-> "empty"]
        ELSE IF HasPrefix(modelLower, "gpt-") THEN
            IF lib.forModel
            THEN [n |-> EncodeLen(dedicated, text), via |-> "dedicated"]
            ELSE IF lib.generic
            THEN [n |-> EncodeLen("cl100k_base", text), via |-> "generic"]
            ELSE [n |-> fallbackTokenCount(text), via |-> "unavailable"]
        ELSE IF IsGenericFamily(modelLower) THEN
            IF lib.generic
            THEN [n |-> EncodeLen("cl100k_base", text), via |-> "generic"]
            ELSE [n |-> fallbackTokenCount(text), via |-> "unavailable"]
        ELSE [n |-> fallbackTokenCount(text), via |-> "unknown"]

\* func (c *Client) calculateCostFromStrings(model, usageData) (float64, error)
\* (the two counts are bound as values, so that each is computed once)
calculateCostFromStrings(table, model, usageData, dedicated, lib) ==
    LET pricing == PricingOf(table, model)
    IN  CHOOSE r \in
          {LET promptCost == TokensCost(prompt.n, pricing.PromptTokensCost)
               completionCost ==
                   TokensCost(completion.n, pricing.CompletionTokensCost)
           IN  [cost |-> DecAdd(promptCost, completionCost), err |-> "nil",
                tok |-> <<prompt, completion>>] :
             prompt \in {getTokenCount(usageData.Model, usageData.PromptString,
                                       dedicated, lib)},
             completion \in {getTokenCount(usageData.Model,
                                           usageData.OutputString,
                                           dedicated, lib)}} : TRUE

(***************************************************************************)
(* Collaborators of the report calls                                       *)
(***************************************************************************)
\* json.Marshal(apiRequest): the JSON object, keyed by the struct's json tags.
\* Its error outcome is an input of the call.
MarshalOutcomes == {"nil", "err"}

Marshal(apiRequest, outcome) ==
    IF outcome = "err" THEN [err |-> "err", body |-> <<>>]
    ELSE [err |-> "nil",
          body |-> [agentId |-> apiRequest.AgentID,
                    customerId |-> apiRequest.CustomerID,
                    indicator |-> apiRequest.Indicator,
                    amount |-> apiRequest.Amount,
                    inputToken |-> apiRequest.InputToken,
                    outputToken |-> apiRequest.OutputToken,
                    model |-> apiRequest.Model,
                    serviceProvider |-> apiRequest.ServiceProvider]]

\* the URLs http.NewRequest rejects: no scheme before the first colon, or a
\* control character
URLParseFails(url) ==
    \/ HasPrefix(url, ":")
    \/ \E i \in 1..Len(url) : CharAt(url, i) \in {"\t", "\n", "\r"}

\* http.NewRequest("POST", url, body) followed by the two Header.Set calls
NewRequest(url, body, apiKey) ==
    IF URLParseFails(url) THEN [err |-> "err", req |-> <<>>]
    ELSE [err |-> "nil",
          req |-> [method |-> "POST", url |-> url,
                   header |-> [ContentType |-> "application/json",
                               paygentApiKey |-> apiKey],
                   body |-> body]]

\* what c.httpClient.Do and io.ReadAll can answer
Statuses == {199, 200, 299, 300, 401}
NotCalled == [kind |-> "notCalled", status |-> 0, readable |-> FALSE]
TransportOutcomes ==
    {[kind |-> "connErr", status |-> 0, readable |-> FALSE]}
      \cup [kind : {"response"}, status : Statuses, readable : {TRUE}]
      \cup [kind : {"response"}, status : {200, 401}, readable : {FALSE}]

\* the transport is consulted only after json.Marshal succeeded
TransportAfter(marshal) ==
    IF marshal = "err" THEN {NotCalled} ELSE TransportOutcomes

\* the status check with 300 taken for a success
StatusOKInclusive(status) == status >= 200 /\ status <= 300

\* resp.StatusCode >= 200 && resp.StatusCode < 300
StatusOK(status) == status >= 200 /\ status < 300

\* Do sending the request a second time after a connection error
DoWithRetry(req, transport) ==
    [wire |-> IF transport.kind = "connErr" THEN <<req, req>> ELSE <<req>>,
     err |-> IF transport.kind = "connErr" THEN "HTTP request failed"
             ELSE IF ~transport.readable THEN "failed to read response body"
             ELSE IF StatusOK(transport.status) THEN "nil"
             ELSE "API request failed with status"]

\* c.httpClient.Do(req), io.ReadAll(resp.Body) and the status check:
\* the requests handed to the transport and the error returned
Do(req, transport) ==
    [wire |-> <<req>>,
     err |-> IF transport.kind = "connErr" THEN "HTTP request failed"
             ELSE IF ~transport.readable THEN "failed to read response body"
             ELSE IF StatusOK(transport.status) THEN "nil"
             ELSE "API request failed with status"]

\* Post going on after json.Marshal failed
PostIgnoringMarshalError(cl, apiRequest, marshal, transport) ==
    LET m == Marshal(apiRequest, marshal)
        url == cl.baseURL \o "/api/v1/usage"
        r == NewRequest(url, m.body, cl.apiKey)
    IN  IF r.err # "nil"
        THEN [err |-> "failed to create HTTP request", wire |-> <<>>,
              marshal |-> marshal, transport |-> NotCalled]
        ELSE LET d == Do(r.req, transport)
             IN  [err |-> d.err, wire |-> d.wire,
                  marshal |-> marshal, transport |-> transport]

\* marshal the request, build the HTTP request and send it
Post(cl, apiRequest, marshal, transport) ==
    LET m == Marshal(apiRequest, marshal)
        url == cl.baseURL \o "/api/v1/usage"
        r == NewRequest(url, m.body, cl.apiKey)
    IN  IF m.err # "nil"
        THEN [err |-> "failed to marshal request body", wire |-> <<>>,
              marshal |-> marshal, transport |-> NotCalled]
        ELSE IF r.err # "nil"
        THEN [err |-> "failed to create HTTP request", wire |-> <<>>,
              marshal |-> marshal, transport |-> NotCalled]
        ELSE LET d == Do(r.req, transport)
             IN  [err |-> d.err, wire |-> d.wire,
                  marshal |-> marshal, transport |-> transport]

\* SendUsage with the two token counts of the record exchanged
sendUsageSwappingTokens(cl, table, agentID, customerID, indicator, usageData, marshal, transport) ==
    LET c == calculateCost(table, usageData.Model, usageData)
        apiRequest == [AgentID |-> agentID,
                       CustomerID |-> customerID,
                       Indicator |-> indicator,
                       Amount |-> c.cost,
                       InputToken |-> usageData.CompletionTokens,
                       OutputToken |-> usageData.PromptTokens,
                       Model |-> usageData.Model,
                       ServiceProvider |-> usageData.ServiceProvider]
    IN  IF c.err # "nil"
        THEN [err |-> "failed to calculate cost", wire |-> <<>>,
              marshal |-> "nil", transport |-> NotCalled]
        ELSE Post(cl, apiRequest, marshal, transport)

\* SendUsage refusing a model that has no entry in the price table
sendUsageValidatingModel(cl, table, agentID, customerID, indicator, usageData, marshal, transport) ==
    LET c == calculateCost(table, usageData.Model, usageData)
        apiRequest == [AgentID |-> agentID,
                       CustomerID |-> customerID,
                       Indicator |-> indicator,
                       Amount |-> c.cost,
                       InputToken |-> usageData.PromptTokens,
                       OutputToken |-> usageData.CompletionTokens,
                       Model |-> usageData.Model,
                       ServiceProvider |-> usageData.ServiceProvider]
    IN  IF c.err # "nil" \/ ~PricingExists(table, usageData.Model)
        THEN [err |-> "failed to calculate cost", wire |-> <<>>,
              marshal |-> "nil", transport |-> NotCalled]
        ELSE Post(cl, apiRequest, marshal, transport)

\* SendUsage taking the input count from TotalTokens when it is given
sendUsageCountingTotalTokens(cl, table, agentID, customerID, indicator, usageData, marshal, transport) ==
    LET c == calculateCost(table, usageData.Model, usageData)
        apiRequest == [AgentID |-> agentID,
                       CustomerID |-> customerID,
                       Indicator |-> indicator,
                       Amount |-> c.cost,
                       InputToken |-> IF usageData.TotalTokens > 0
                                      THEN usageData.TotalTokens
                                             - usageData.CompletionTokens
                                      ELSE usageData.PromptTokens,
                       OutputToken |-> usageData.CompletionTokens,
                       Model |-> usageData.Model,
                       ServiceProvider |-> usageData.ServiceProvider]
    IN  IF c.err # "nil"
        THEN [err |-> "failed to calculate cost", wire |-> <<>>,
              marshal |-> "nil", transport |-> NotCalled]
        ELSE Post(cl, apiRequest, marshal, transport)

\* func (c *Client) SendUsage(agentID, customerID, indicator, usageData) error
sendUsage(cl, table, agentID, customerID, indicator, usageData, marshal, transport) ==
    LET c == calculateCost(table, usageData.Model, usageData)
        apiRequest == [AgentID |-> agentID,
                       CustomerID |-> customerID,
                       Indicator |-> indicator,
                       Amount |-> c.cost,
                       InputToken |-> usageData.PromptTokens,
                       OutputToken |-> usageData.CompletionTokens,
                       Model |-> usageData.Model,
                       ServiceProvider |-> usageData.ServiceProvider]
    IN  IF c.err # "nil"
        THEN [err |-> "failed to calculate cost", wire |-> <<>>,
              marshal |-> "nil", transport |-> NotCalled]
        ELSE Post(cl, apiRequest, marshal, transport)

\* SendUsageWithTokenString looking the price up under the provider's name
sendUsageWithTokenStringPricedByProvider(cl, table, agentID, customerID, indicator, usageData, dedicated, lib, marshal, transport) ==
    LET c == calculateCostFromStrings(table, usageData.ServiceProvider,
                                      usageData, dedicated, lib[1])
        prompt == getTokenCount(usageData.Model, usageData.PromptString,
                                dedicated, lib[2])
        completion == getTokenCount(usageData.Model, usageData.OutputString,
                                    dedicated, lib[2])
        apiRequest == [AgentID |-> agentID,
                       CustomerID |-> customerID,
                       Indicator |-> indicator,
                       Amount |-> c.cost,
                       InputToken |-> prompt.n,
                       OutputToken |-> completion.n,
                       Model |-> usageData.Model,
                       ServiceProvider |-> usageData.ServiceProvider]
        p == Post(cl, apiRequest, marshal, transport)
    IN  IF c.err # "nil"
        THEN [err |-> "failed to calculate cost from strings", wire |-> <<>>,
              marshal |-> "nil", transport |-> NotCalled, tok |-> c.tok]
        ELSE [err |-> p.err, wire |-> p.wire, marshal |-> p.marshal,
              transport |-> p.transport,
              tok |-> c.tok \o <<prompt, completion>>]

\* func (c *Client) SendUsageWithTokenString(agentID, customerID, indicator,
\*                                           usageData) error
\* lib[1] is what the library answers while the cost is calculated, lib[2]
\* what it answers while the token counts of the record are taken
sendUsageWithTokenString(cl, table, agentID, customerID, indicator, usageData, dedicated, lib, marshal, transport) ==
    LET c == calculateCostFromStrings(table, usageData.Model, usageData,
                                      dedicated, lib[1])
        prompt == getTokenCount(usageData.Model, usageData.PromptString,
                                dedicated, lib[2])
        completion == getTokenCount(usageData.Model, usageData.OutputString,
                                    dedicated, lib[2])
        apiRequest == [AgentID |-> agentID,
                       CustomerID |-> customerID,
                       Indicator |-> indicator,
                       Amount |-> c.cost,
                       InputToken |-> prompt.n,
                       OutputToken |-> completion.n,
                       Model |-> usageData.Model,
                       ServiceProvider |-> usageData.ServiceProvider]
        p == Post(cl, apiRequest, marshal, transport)
    IN  IF c.err # "nil"
        THEN [err |-> "failed to calculate cost from strings", wire |-> <<>>,
              marshal |-> "nil", transport |-> NotCalled, tok |-> c.tok]
        ELSE [err |-> p.err, wire |-> p.wire, marshal |-> p.marshal,
              transport |-> p.transport,
              tok |-> c.tok \o <<prompt, completion>>]

(***************************************************************************)
(* State                                                                   *)
(***************************************************************************)
VARIABLES
    client,        \* the Client: apiKey, baseURL and the level of its logger
    modelPricing,  \* the package variable modelPricing
    call,          \* the operation called last and its arguments
    ret,           \* what it returned
    wire,          \* the HTTP requests it handed to the transport
    env,           \* what its collaborators answered
    earlier,       \* a calculateCost call made before, and what it returned
    inflight       \* the report calls running concurrently, one per caller

vars == <<client, modelPricing, call, ret, wire, env, earlier, inflight>>

ApiKeys == {"test-api-key", "other-api-key"}
BaseURLs == {"http://localhost:8080", ":bad-url"}
LogLevels == {"info", "debug"}

\* the caller's identification of a report: agentID, customerID, indicator,
\* ServiceProvider and TotalTokens
Callers ==
    {[agentID |-> "agent-123", customerID |-> "customer-456",
      indicator |-> "email-sent", ServiceProvider |-> "Meta", TotalTokens |-> 0],
     [agentID |-> "agent-789", customerID |-> "customer-101",
      indicator |-> "chat-completion", ServiceProvider |-> "OpenAI",
      TotalTokens |-> 1500]}

\* type UsageData
UsageData(serviceProvider, model, promptTokens, completionTokens, totalTokens) ==
    [ServiceProvider |-> serviceProvider, Model |-> model,
     PromptTokens |-> promptTokens, CompletionTokens |-> completionTokens,
     TotalTokens |-> totalTokens]

\* type UsageDataWithStrings
UsageDataWithStrings(serviceProvider, model, promptString, outputString) ==
    [ServiceProvider |-> serviceProvider, Model |-> model,
     PromptString |-> promptString, OutputString |-> outputString]

\* env.lib is what the tiktoken library was set to answer, env.tok what each
\* getTokenCount call returned, in the order of the calls
NoEnv == [marshal |-> "nil", transport |-> NotCalled,
          dedicated |-> "cl100k_base", lib |-> <<>>, tok |-> <<>>]

\* func NewClient(apiKey string) *Client
newClient(apiKey) ==
    [apiKey |-> apiKey, baseURL |-> "http://13.201.118.45:8080", level |-> "info"]

\* func NewClientWithURL(apiKey, baseURL string) *Client
newClientWithURL(apiKey, baseURL) ==
    [apiKey |-> apiKey, baseURL |-> baseURL, level |-> "info"]

\* no result of calculateCost has been kept
NoEarlier ==
    [kept |-> FALSE, model |-> "", usageData |-> UsageData("", "", 0, 0, 0),
     level |-> "info", ret |-> [cost |-> Dec(0, 0), err |-> "nil"]]

\* the goroutines that share the client
Procs == {1, 2}

\* a report call in flight: its position, its arguments and its local
\* variables (amount is the cost, tok the token counts taken so far, lib what
\* the tiktoken library answered at each pass)
CallOf(pc, op, agentID, customerID, indicator, usageData) ==
    [pc |-> pc, op |-> op, agentID |-> agentID, customerID |-> customerID,
     indicator |-> indicator, usageData |-> usageData,
     amount |-> Dec(0, 0), tok |-> <<>>, lib |-> <<>>,
     transport |-> NotCalled, wire |-> <<>>, err |-> "nil"]

\* the goroutine runs no report call
NoCall == CallOf("idle", "idle", "", "", "", UsageData("", "", 0, 0, 0))

\* no call is in progress
Idle == [op |-> "idle"]

Init ==
    /\ \E k \in ApiKeys : client = newClient(k)
    /\ modelPricing = modelPricingInit
    /\ call = Idle
    /\ ret = [err |-> "nil"]
    /\ wire = <<>>
    /\ env = NoEnv
    /\ earlier = NoEarlier
    /\ inflight = [p \in Procs |-> NoCall]

(***************************************************************************)
(* Operations                                                              *)
(***************************************************************************)
NewClient ==
    /\ call = Idle
    /\ UNCHANGED <<earlier, inflight>>
    /\ \E k \in ApiKeys :
        /\ client' = newClient(k)
        /\ call' = [op |-> "NewClient", apiKey |-> k]
        /\ ret' = [err |-> "nil"]
        /\ wire' = <<>>
        /\ env' = NoEnv
        /\ UNCHANGED modelPricing

NewClientWithURL ==
    /\ call = Idle
    /\ UNCHANGED <<earlier, inflight>>
    /\ \E k \in ApiKeys, u \in BaseURLs :
        /\ client' = newClientWithURL(k, u)
        /\ call' = [op |-> "NewClientWithURL", apiKey |-> k, baseURL |-> u]
        /\ ret' = [err |-> "nil"]
        /\ wire' = <<>>
        /\ env' = NoEnv
        /\ UNCHANGED modelPricing

\* SetLogLevel that leaves the logger's level as it was
SetLogLevelIgnored ==
    /\ call = Idle
    /\ UNCHANGED <<earlier, inflight>>
    /\ \E l \in LogLevels :
        /\ call' = [op |-> "SetLogLevel", level |-> l]
        /\ ret' = [err |-> "nil"]
        /\ wire' = <<>>
        /\ env' = NoEnv
        /\ UNCHANGED <<client, modelPricing>>

\* func (c *Client) SetLogLevel(level logrus.Level)
SetLogLevel ==
    /\ call = Idle
    /\ UNCHANGED <<earlier, inflight>>
    /\ \E l \in LogLevels :
        /\ client' = [client EXCEPT !.level = l]
        /\ call' = [op |-> "SetLogLevel", level |-> l]
        /\ ret' = [err |-> "nil"]
        /\ wire' = <<>>
        /\ env' = NoEnv
        /\ UNCHANGED modelPricing

\* func (c *Client) GetLogger() *logrus.Logger
\* the pointer returned is a reference to the field c.logger; level is the
\* level read through it
GetLogger ==
    /\ call = Idle
    /\ UNCHANGED <<earlier, inflight>>
    /\ call' = [op |-> "GetLogger"]
    /\ ret' = [err |-> "nil",
               logger |-> [ref |-> "c.logger", level |-> client.level]]
    /\ wire' = <<>>
    /\ env' = NoEnv
    /\ UNCHANGED <<client, modelPricing>>

\* CalculateCost pricing every model by default while the logger is at
\* debug level
CalculateCostByLogLevel ==
    /\ call = Idle
    /\ UNCHANGED <<earlier, inflight>>
    /\ \E m \in Models, p \in TokenCounts, c \in TokenCounts :
        LET usageData == UsageData("", "", p, c, 0)
            table == IF client.level = "debug" THEN <<>> ELSE modelPricing
        IN  /\ call' = [op |-> "calculateCost", model |-> m,
                        usageData |-> usageData]
            /\ ret' = calculateCost(table, m, usageData)
            /\ wire' = <<>>
            /\ env' = NoEnv
            /\ UNCHANGED <<client, modelPricing>>

\* client.calculateCost(model, usageData), called as the tests call it
CalculateCost ==
    /\ call = Idle
    /\ UNCHANGED <<earlier, inflight>>
    /\ \E m \in Models, p \in TokenCounts, c \in TokenCounts :
        LET usageData == UsageData("", "", p, c, 0)
        IN  /\ call' = [op |-> "calculateCost", model |-> m,
                        usageData |-> usageData]
            /\ ret' = calculateCost(modelPricing, m, usageData)
            /\ wire' = <<>>
            /\ env' = NoEnv
            /\ UNCHANGED <<client, modelPricing>>

\* client.getTokenCount(model, text)
GetTokenCount ==
    /\ call = Idle
    /\ UNCHANGED <<earlier, inflight>>
    /\ \E m \in Models, t \in Texts, d \in Encodings, l \in LibOutcomes :
        \E r \in {getTokenCount(m, t, d, l)} :
            /\ call' = [op |-> "getTokenCount", model |-> m, text |-> t]
            /\ ret' = [n |-> r.n]
            /\ wire' = <<>>
            /\ env' = [NoEnv EXCEPT !.dedicated = d, !.lib = <<l>>,
                                     !.tok = <<r>>]
            /\ UNCHANGED <<client, modelPricing>>

\* client.calculateCostFromStrings(model, usageData)
CalculateCostFromStrings ==
    /\ call = Idle
    /\ UNCHANGED <<earlier, inflight>>
    /\ \E m \in ReportModels, um \in ReportModels,
       ps \in ReportTexts, os \in ReportTexts,
       d \in Encodings, l \in LibOutcomes :
        LET usageData == UsageDataWithStrings("", um, ps, os)
        IN  \E r \in {calculateCostFromStrings(modelPricing, m, usageData,
                                                d, l)} :
            /\ call' = [op |-> "calculateCostFromStrings", model |-> m,
                        usageData |-> usageData]
            /\ ret' = [cost |-> r.cost, err |-> r.err]
            /\ wire' = <<>>
            /\ env' = [NoEnv EXCEPT !.dedicated = d, !.lib = <<l>>,
                                     !.tok = r.tok]
            /\ UNCHANGED <<client, modelPricing>>

\* SendUsage keeping the default entry it substituted in the price table
SendUsageStoringDefault ==
    /\ call = Idle
    /\ UNCHANGED <<earlier, inflight>>
    /\ \E who \in Callers, m \in ReportModels,
       p \in TokenCounts, c \in TokenCounts,
       marshal \in MarshalOutcomes :
      \E transport \in TransportAfter(marshal) :
        LET usageData == UsageData(who.ServiceProvider, m, p, c, who.TotalTokens)
        IN  \E r \in {sendUsage(client, modelPricing, who.agentID,
                              who.customerID, who.indicator, usageData,
                              marshal, transport)} :
            /\ call' = [op |-> "SendUsage", agentID |-> who.agentID,
                        customerID |-> who.customerID,
                        indicator |-> who.indicator, usageData |-> usageData]
            /\ ret' = [err |-> r.err]
            /\ wire' = r.wire
            /\ env' = [NoEnv EXCEPT !.marshal = r.marshal,
                                     !.transport = r.transport]
            /\ modelPricing' = IF PricingExists(modelPricing, m)
                               THEN modelPricing
                               ELSE (m :> DefaultPricing) @@ modelPricing
            /\ UNCHANGED client

SendUsage ==
    /\ call = Idle
    /\ UNCHANGED <<earlier, inflight>>
    /\ \E who \in Callers, m \in ReportModels,
       p \in TokenCounts, c \in TokenCounts,
       marshal \in MarshalOutcomes :
      \E transport \in TransportAfter(marshal) :
        LET usageData == UsageData(who.ServiceProvider, m, p, c, who.TotalTokens)
        IN  \E r \in {sendUsage(client, modelPricing, who.agentID,
                              who.customerID, who.indicator, usageData,
                              marshal, transport)} :
            /\ call' = [op |-> "SendUsage", agentID |-> who.agentID,
                        customerID |-> who.customerID,
                        indicator |-> who.indicator, usageData |-> usageData]
            /\ ret' = [err |-> r.err]
            /\ wire' = r.wire
            /\ env' = [NoEnv EXCEPT !.marshal = r.marshal,
                                     !.transport = r.transport]
            /\ UNCHANGED <<client, modelPricing>>

SendUsageWithTokenString ==
    /\ call = Idle
    /\ UNCHANGED <<earlier, inflight>>
    /\ \E who \in Callers, m \in ReportModels,
       ps \in ReportTexts, os \in ReportTexts,
       d \in Encodings, lib \in [1..2 -> LibOutcomes],
       marshal \in MarshalOutcomes :
      \E transport \in TransportAfter(marshal) :
        LET usageData == UsageDataWithStrings(who.ServiceProvider, m, ps, os)
        IN  \E r \in {sendUsageWithTokenString(client, modelPricing,
                          who.agentID, who.customerID, who.indicator,
                          usageData, d, lib, marshal, transport)} :
            /\ call' = [op |-> "SendUsageWithTokenString",
                        agentID |-> who.agentID, customerID |-> who.customerID,
                        indicator |-> who.indicator, usageData |-> usageData]
            /\ ret' = [err |-> r.err]
            /\ wire' = r.wire
            /\ env' = [NoEnv EXCEPT !.marshal = r.marshal,
                                     !.transport = r.transport,
                                     !.dedicated = d, !.lib = lib,
                                     !.tok = r.tok]
            /\ UNCHANGED <<client, modelPricing>>

\* Return leaving the logger at debug level behind a failed call
ReturnDebuggingAfterFailure ==
    /\ call # Idle
    /\ UNCHANGED <<earlier, inflight>>
    /\ call' = Idle
    /\ ret' = [err |-> "nil"]
    /\ wire' = <<>>
    /\ env' = NoEnv
    /\ client' = IF ret.err = "nil" THEN client
                  ELSE [client EXCEPT !.level = "debug"]
    /\ UNCHANGED modelPricing

\* the call returns to its caller; nothing of it is retained
Return ==
    /\ call # Idle
    /\ UNCHANGED <<earlier, inflight>>
    /\ call' = Idle
    /\ ret' = [err |-> "nil"]
    /\ wire' = <<>>
    /\ env' = NoEnv
    /\ UNCHANGED <<client, modelPricing>>

\* the calls whose result a caller keeps to compare a later one with
KeptModels == ReportModels
KeptPromptTokens == {0, 1000}
KeptCompletionTokens == {MaxTokens, 500}

\* the caller of calculateCost keeps what the call returned
KeepResult ==
    /\ call.op = "calculateCost"
    /\ ~earlier.kept
    /\ call.model \in KeptModels
    /\ call.usageData.PromptTokens \in KeptPromptTokens
    /\ call.usageData.CompletionTokens \in KeptCompletionTokens
    /\ earlier' = [kept |-> TRUE, model |-> call.model,
                   usageData |-> call.usageData, level |-> client.level,
                   ret |-> ret]
    /\ UNCHANGED <<client, modelPricing, call, ret, wire, env, inflight>>

(***************************************************************************)
(* Report calls of several goroutines on one client, step by step          *)
(***************************************************************************)
\* the two report operations
ReportOps == {"SendUsage", "SendUsageWithTokenString"}

ConcModels == {"gpt-4o", "claude-3-sonnet", "unknown-model"}
ConcCounts == <<(<<1000, 500>>), (<<0, MaxTokens>>)>>
ConcTexts == <<(<<"a b c d", "">>), (<<"ab", "a b c d">>)>>
ConcTransports ==
    {t \in TransportOutcomes :
        t.kind = "connErr" \/ (t.readable /\ t.status \in {200, 401})}

\* the encoding the library holds for the models it knows
ConcDedicated == "o200k_base"

\* each goroutine reports for a caller of its own
CallerOf(p) ==
    CHOOSE who \in Callers :
        who.agentID = (IF p = 1 THEN "agent-123" ELSE "agent-789")

\* a goroutine calls SendUsage or SendUsageWithTokenString
Begin(p) ==
    /\ inflight[p].pc = "idle"
    /\ \E op \in ReportOps, m \in ConcModels, i \in 1..2 :
        LET who == CallerOf(p)
            usageData ==
                IF op = "SendUsage"
                THEN UsageData(who.ServiceProvider, m, ConcCounts[i][1],
                               ConcCounts[i][2], who.TotalTokens)
                ELSE UsageDataWithStrings(who.ServiceProvider, m,
                                          ConcTexts[i][1], ConcTexts[i][2])
        IN  inflight' = [inflight EXCEPT ![p] =
                CallOf("cost", op, who.agentID, who.customerID, who.indicator,
                       usageData)]
    /\ UNCHANGED <<client, modelPricing, call, ret, wire, env, earlier>>

\* CostStep with the cost kept in a place all calls on the client share
CostStepSharedAmount(p) ==
    /\ inflight[p].pc = "cost"
    /\ LET me == inflight[p]
       IN  IF me.op = "SendUsage"
           THEN \E c \in {calculateCost(modelPricing, me.usageData.Model,
                                        me.usageData)} :
                  inflight' = [q \in Procs |->
                      IF q = p THEN [me EXCEPT !.pc = "post", !.amount = c.cost]
                      ELSE IF inflight[q].pc = "post"
                      THEN [inflight[q] EXCEPT !.amount = c.cost]
                      ELSE inflight[q]]
           ELSE \E l \in LibOutcomes :
                \E c \in {calculateCostFromStrings(modelPricing,
                              me.usageData.Model, me.usageData,
                              ConcDedicated, l)} :
                  inflight' = [q \in Procs |->
                      IF q = p
                      THEN [me EXCEPT !.pc = "count", !.amount = c.cost,
                                      !.tok = c.tok, !.lib = <<l>>]
                      ELSE IF inflight[q].pc = "post"
                      THEN [inflight[q] EXCEPT !.amount = c.cost]
                      ELSE inflight[q]]
    /\ UNCHANGED <<client, modelPricing, call, ret, wire, env, earlier>>

\* the call computes its cost: c.calculateCost(usageData.Model, usageData),
\* or c.calculateCostFromStrings(usageData.Model, usageData)
CostStep(p) ==
    /\ inflight[p].pc = "cost"
    /\ LET me == inflight[p]
       IN  IF me.op = "SendUsage"
           THEN \E c \in {calculateCost(modelPricing, me.usageData.Model,
                                        me.usageData)} :
                  inflight' = [inflight EXCEPT ![p] =
                      IF c.err # "nil"
                      THEN [me EXCEPT !.pc = "done",
                                      !.err = "failed to calculate cost"]
                      ELSE [me EXCEPT !.pc = "post", !.amount = c.cost]]
           ELSE \E l \in LibOutcomes :
                \E c \in {calculateCostFromStrings(modelPricing,
                              me.usageData.Model, me.usageData,
                              ConcDedicated, l)} :
                  inflight' = [inflight EXCEPT ![p] =
                      IF c.err # "nil"
                      THEN [me EXCEPT
                              !.pc = "done", !.tok = c.tok, !.lib = <<l>>,
                              !.err = "failed to calculate cost from strings"]
                      ELSE [me EXCEPT !.pc = "count", !.amount = c.cost,
                                      !.tok = c.tok, !.lib = <<l>>]]
    /\ UNCHANGED <<client, modelPricing, call, ret, wire, env, earlier>>

\* SendUsageWithTokenString counts the tokens of the two strings again, for
\* the record
CountStep(p) ==
    /\ inflight[p].pc = "count"
    /\ \E l \in LibOutcomes :
        LET me == inflight[p]
            prompt == getTokenCount(me.usageData.Model,
                                    me.usageData.PromptString, ConcDedicated, l)
            completion == getTokenCount(me.usageData.Model,
                                        me.usageData.OutputString,
                                        ConcDedicated, l)
        IN  inflight' = [inflight EXCEPT ![p] =
                [me EXCEPT !.pc = "post",
                           !.tok = me.tok \o <<prompt, completion>>,
                           !.lib = me.lib \o <<l>>]]
    /\ UNCHANGED <<client, modelPricing, call, ret, wire, env, earlier>>

\* the APIRequest a call in flight has prepared
RequestOf(me) ==
    [AgentID |-> me.agentID,
     CustomerID |-> me.customerID,
     Indicator |-> me.indicator,
     Amount |-> me.amount,
     InputToken |-> IF me.op = "SendUsage" THEN me.usageData.PromptTokens
                    ELSE me.tok[3].n,
     OutputToken |-> IF me.op = "SendUsage"
                     THEN me.usageData.CompletionTokens
                     ELSE me.tok[4].n,
     Model |-> me.usageData.Model,
     ServiceProvider |-> me.usageData.ServiceProvider]

\* PostStep that sends only while no other call on the client is sending
PostStepOneAtATime(p) ==
    /\ inflight[p].pc = "post"
    /\ \A q \in Procs \ {p} : inflight[q].pc \notin {"post", "done"}
    /\ \E transport \in ConcTransports :
        \E r \in {Post(client, RequestOf(inflight[p]), "nil", transport)} :
            inflight' = [inflight EXCEPT ![p] =
                [@ EXCEPT !.pc = "done", !.transport = r.transport,
                          !.wire = r.wire, !.err = r.err]]
    /\ UNCHANGED <<client, modelPricing, call, ret, wire, env, earlier>>

\* the call serialises its record and sends it; the transport answers or
\* times out (http.Client{Timeout: 30 * time.Second})
PostStep(p) ==
    /\ inflight[p].pc = "post"
    /\ \E transport \in ConcTransports :
        \E r \in {Post(client, RequestOf(inflight[p]), "nil", transport)} :
            inflight' = [inflight EXCEPT ![p] =
                [@ EXCEPT !.pc = "done", !.transport = r.transport,
                          !.wire = r.wire, !.err = r.err]]
    /\ UNCHANGED <<client, modelPricing, call, ret, wire, env, earlier>>

\* the call returns
Finish(p) ==
    /\ inflight[p].pc = "done"
    /\ inflight' = [inflight EXCEPT ![p] = NoCall]
    /\ UNCHANGED <<client, modelPricing, call, ret, wire, env, earlier>>

Next ==
    \/ Return
    \/ NewClient
    \/ NewClientWithURL
    \/ SetLogLevel
    \/ GetLogger
    \/ CalculateCost
    \/ GetTokenCount
    \/ CalculateCostFromStrings
    \/ SendUsage
    \/ SendUsageWithTokenString

Spec == Init /\ [][Next]_vars

\* the cost calculator alone
NextCost ==
    \/ Return
    \/ CalculateCost

SpecCost == Init /\ [][NextCost]_vars

\* the tokenizer resolver and the cost of texts
NextTokens ==
    \/ Return
    \/ GetTokenCount
    \/ CalculateCostFromStrings

SpecTokens == Init /\ [][NextTokens]_vars

\* the report calls on clients of every construction
NextReport ==
    \/ Return
    \/ NewClient
    \/ NewClientWithURL
    \/ SendUsage
    \/ SendUsageWithTokenString

SpecReport == Init /\ [][NextReport]_vars

\* the exported operations of a client
NextClient ==
    \/ Return
    \/ NewClient
    \/ NewClientWithURL
    \/ SetLogLevel
    \/ GetLogger
    \/ SendUsage
    \/ SendUsageWithTokenString

SpecClient == Init /\ [][NextClient]_vars

\* the two cost calculators
NextCosts ==
    \/ Return
    \/ CalculateCost
    \/ CalculateCostFromStrings

SpecCosts == Init /\ [][NextCosts]_vars

\* calculateCost called again and again, with the log level changed in
\* between
NextPure ==
    \/ Return
    \/ SetLogLevel
    \/ CalculateCost
    \/ KeepResult

SpecPure == Init /\ [][NextPure]_vars

\* the report calls of the goroutines, interleaved
NextConcurrent ==
    \E p \in Procs :
        \/ Begin(p)
        \/ CostStep(p)
        \/ CountStep(p)
        \/ PostStep(p)
        \/ Finish(p)

SpecConcurrent == Init /\ [][NextConcurrent]_vars

\* a goroutine that can take a step of its call takes it: the steps of a
\* call are straight-line code of a runnable goroutine, and the transport
\* answers or times out; nothing obliges a caller to begin a call
Running(p) ==
    \/ CostStep(p)
    \/ CountStep(p)
    \/ PostStep(p)
    \/ Finish(p)

\* the report calls of the goroutines for one model, interleaved
NextTermination ==
    \E p \in Procs :
        \/ Begin(p) /\ inflight'[p].usageData.Model = "gpt-4o"
        \/ CostStep(p)
        \/ CountStep(p)
        \/ PostStep(p)
        \/ Finish(p)

SpecTermination ==
    /\ Init
    /\ [][NextTermination]_vars
    /\ \A p \in Procs : WF_vars(Running(p))

(***************************************************************************)
(* Properties                                                              *)
(***************************************************************************)
\* p * promptCost + c * completionCost, each product taken on decimals
WeightedSum(p, promptCost, c, completionCost) ==
    DecAdd(DecMul(DecOfInt(p), promptCost), DecMul(DecOfInt(c), completionCost))

\* cost * 1000
TimesThousand(cost) == DecMul(cost, DecOfInt(1000))

\* C1: for a model with an entry in the price table and token counts p >= 0,
\* c >= 0, calculateCost returns (p/1000) * promptCost + (c/1000) *
\* completionCost of that entry, unrounded: 1000 times the cost is
\* p * promptCost + c * completionCost.
C1_KnownModelCost ==
    (/\ call.op = "calculateCost"
     /\ call.model \in DOMAIN ModelConst
     /\ call.usageData.PromptTokens >= 0
     /\ call.usageData.CompletionTokens >= 0)
    => LET entry == modelPricingInit[ModelConst[call.model]]
       IN  TimesThousand(ret.cost) =
               WeightedSum(call.usageData.PromptTokens, entry.PromptTokensCost,
                           call.usageData.CompletionTokens,
                           entry.CompletionTokensCost)

\* the entry priced 0.03 / 0.06 gives 0.06 for 1000 and 500 tokens
C1_Witness ==
    /\ call.op = "calculateCost"
    /\ call.model = "gpt-4-0613"
    /\ call.usageData.PromptTokens = 1000
    /\ call.usageData.CompletionTokens = 500
    /\ ret.cost = Dec(6, 2)

\* C2: for a model without an entry in the price table calculateCost returns
\* (p + c)/1000 * 0.10: 10000 times the cost is p + c.
C2_UnknownModelCost ==
    (/\ call.op = "calculateCost"
     /\ call.model \notin DOMAIN ModelConst)
    => DecMul(ret.cost, DecOfInt(10000)) =
           DecOfInt(call.usageData.PromptTokens
                      + call.usageData.CompletionTokens)

\* "llama" has no entry: 1000 and 500 tokens cost 0.15
C2_Witness ==
    /\ call.op = "calculateCost"
    /\ call.model = "llama"
    /\ call.usageData.PromptTokens = 1000
    /\ call.usageData.CompletionTokens = 500
    /\ ret.cost = Dec(15, 2)

\* C3: calculateCost and calculateCostFromStrings never return an error, and
\* no report call fails with "failed to calculate cost".
C3_CostNeverFails ==
    /\ call.op \in {"calculateCost", "calculateCostFromStrings"}
          => ret.err = "nil"
    /\ call.op \in ReportOps
          => ret.err \notin {"failed to calculate cost",
                             "failed to calculate cost from strings"}

\* a cost was calculated for a model without an entry, and no error returned
C3_Witness ==
    /\ call.op = "calculateCost"
    /\ call.model = "unknown-model"
    /\ ret.err = "nil"

\* the price entry calculateCost uses for a model: its entry in the table as
\* initialised, or 0.10 / 0.10
EntryOrDefault(model) ==
    IF model \in DOMAIN ModelConst THEN modelPricingInit[ModelConst[model]]
    ELSE Price(Dec(1, 1), Dec(1, 1))

\* amount = (p/1000) * promptCost + (c/1000) * completionCost for the model
AmountMatches(amount, model, p, c) ==
    LET entry == EntryOrDefault(model)
    IN  TimesThousand(amount) =
            WeightedSum(p, entry.PromptTokensCost, c, entry.CompletionTokensCost)

\* C4: the record SendUsageWithTokenString hands to the transport has
\* inputToken and outputToken equal to the token counts of the prompt and of
\* the output, and amount = (inputToken/1000) * promptCost +
\* (outputToken/1000) * completionCost for the model's price entry.
C4_RecordOfTokenString ==
    (call.op = "SendUsageWithTokenString" /\ wire # <<>>)
    => LET body == wire[1].body
       IN  /\ body.inputToken = env.tok[3].n
           /\ body.outputToken = env.tok[4].n
           /\ AmountMatches(body.amount, call.usageData.Model,
                            body.inputToken, body.outputToken)

\* what holds of C4's record whenever the library answers the same while the
\* cost is calculated and while the counts of the record are taken
C4_WhenLibraryStable ==
    (/\ call.op = "SendUsageWithTokenString"
     /\ wire # <<>>
     /\ env.lib[1] = env.lib[2])
    => AmountMatches(wire[1].body.amount, call.usageData.Model,
                     wire[1].body.inputToken, wire[1].body.outputToken)

\* C5: the record SendUsage hands to the transport carries the caller's
\* PromptTokens and CompletionTokens as inputToken and outputToken, the
\* caller's agentId, customerId, indicator, model and serviceProvider, and
\* the cost of these token counts as amount.
C5_RecordOfCounts ==
    (call.op = "SendUsage" /\ wire # <<>>)
    => LET body == wire[1].body
           usage == call.usageData
       IN  /\ body.inputToken = usage.PromptTokens
           /\ body.outputToken = usage.CompletionTokens
           /\ body.agentId = call.agentID
           /\ body.customerId = call.customerID
           /\ body.indicator = call.indicator
           /\ body.model = usage.Model
           /\ body.serviceProvider = usage.ServiceProvider
           /\ AmountMatches(body.amount, usage.Model,
                            usage.PromptTokens, usage.CompletionTokens)

\* a record of 1000 and 500 tokens of mistral-large was handed over
C5_Witness ==
    /\ call.op = "SendUsage"
    /\ call.usageData.Model = "mistral-large"
    /\ call.usageData.PromptTokens = 1000
    /\ call.usageData.CompletionTokens = 500
    /\ Len(wire) = 1
    /\ wire[1].body.inputToken = 1000
    /\ wire[1].body.outputToken = 500
    /\ wire[1].body.amount = Dec(5, 0)
    /\ wire[1].body.agentId = "agent-123"

\* C6: a report call returns nil exactly when the transport delivered a
\* response with a status in 200..299 whose body could be read.
C6_SuccessIffAccepted ==
    call.op \in ReportOps
    => (ret.err = "nil"
          <=> /\ env.transport.kind = "response"
              /\ env.transport.readable
              /\ env.transport.status \in 200..299)

\* the transport answered 401 and the call failed
C6_Witness ==
    /\ call.op \in ReportOps
    /\ env.transport.kind = "response"
    /\ env.transport.readable
    /\ env.transport.status = 401
    /\ ret.err = "API request failed with status"

\* C7: a report call hands its request to the transport at most once, and
\* exactly once when the transport was reached, whether it succeeds or fails.
C7_NoRetry ==
    call.op \in ReportOps
    => /\ Len(wire) <= 1
       /\ env.transport.kind # "notCalled" => Len(wire) = 1

\* the connection failed and the request was handed over once
C7_Witness ==
    /\ call.op \in ReportOps
    /\ env.transport.kind = "connErr"
    /\ ret.err = "HTTP request failed"
    /\ Len(wire) = 1

\* C8: when the record cannot be serialised the report call returns a failure
\* and hands nothing to the transport.
C8_MarshalFailure ==
    (call.op \in ReportOps /\ env.marshal = "err")
    => /\ ret.err # "nil"
       /\ wire = <<>>
       /\ env.transport.kind = "notCalled"

C8_Witness ==
    /\ call.op \in ReportOps
    /\ env.marshal = "err"
    /\ ret.err = "failed to marshal request body"
    /\ wire = <<>>

\* C9: the token count of the empty text is 0 for every model, without any
\* lookup of an encoding, whatever the library would answer.
C9_EmptyText ==
    /\ (call.op = "getTokenCount" /\ call.text = "")
          => (ret.n = 0 /\ env.tok[1].via = "empty")
    /\ (call.op = "calculateCostFromStrings"
          /\ call.usageData.PromptString = "")
          => env.tok[1] = [n |-> 0, via |-> "empty"]
    /\ (call.op = "calculateCostFromStrings"
          /\ call.usageData.OutputString = "")
          => env.tok[2] = [n |-> 0, via |-> "empty"]

\* the empty text counted for a model of a family while no encoding loads
C9_Witness ==
    /\ call.op = "getTokenCount"
    /\ call.model = "claude-3-sonnet"
    /\ call.text = ""
    /\ env.lib[1] = [forModel |-> FALSE, generic |-> FALSE]
    /\ ret.n = 0

\* the prefixes of the recognised families
FamilyPrefixes ==
    {"gpt-", "claude-", "gemini-", "llama", "mistral", "command", "deepseek",
     "titan-"}

\* the number of whitespace-separated words of a text
RECURSIVE WordCount(_, _)
WordCount(text, inWord) ==
    IF Len(text) = 0 THEN 0
    ELSE LET rest == SubSeq(text, 2, Len(text))
         IN  IF CharAt(text, 1) \in {" ", "\t", "\n", "\r"}
             THEN WordCount(rest, FALSE)
             ELSE (IF inWord THEN 0 ELSE 1) + WordCount(rest, TRUE)

\* n = max(1, floor(words * 1.3))
IsHeuristicCount(n, words) ==
    IF 13 * words < 10 THEN n = 1
    ELSE 10 * n <= 13 * words /\ 13 * words < 10 * (n + 1)

\* C10: for a model whose lower-cased identifier starts with none of the
\* family prefixes and a non-empty text, the token count is
\* max(1, floor(wordCount * 1.3)).
C10_UnknownFamilyCount ==
    (/\ call.op = "getTokenCount"
     /\ call.text # ""
     /\ \A prefix \in FamilyPrefixes : ~HasPrefix(ToLower(call.model), prefix))
    => IsHeuristicCount(ret.n, WordCount(call.text, FALSE))

\* four words count 5 tokens
C10_Witness ==
    /\ call.op = "getTokenCount"
    /\ call.model = "unknown-model"
    /\ call.text = "a b c d"
    /\ ret.n = 5

\* the branches of getTokenCount that count by words
HeuristicVia == {"unavailable", "unknown"}

\* the number of words and the estimate of every text
WordsOf == [text \in Texts |-> WordCount(text, FALSE)]
EstimateOf == [text \in Texts |-> fallbackTokenCount(text)]

\* C11: on the word-counting path the token count does not decrease with the
\* number of whitespace-separated words: a non-empty text of no more words
\* than the text counted gets no more tokens, one of no fewer words no fewer.
C11_MonotoneInWords ==
    (/\ call.op = "getTokenCount"
     /\ call.text # ""
     /\ env.tok[1].via \in HeuristicVia)
    => \A other \in Texts \ {""} :
          /\ WordsOf[other] <= WordsOf[call.text] => EstimateOf[other] <= ret.n
          /\ WordsOf[other] >= WordsOf[call.text] => EstimateOf[other] >= ret.n

\* three words were counted 3 tokens by the estimator
C11_Witness ==
    /\ call.op = "getTokenCount"
    /\ call.text = "hello world test"
    /\ env.tok[1].via = "unknown"
    /\ ret.n = 3

\* the prefixes of the families counted with cl100k_base
GenericPrefixes == FamilyPrefixes \ {"gpt-"}

\* C12: the strategy follows the lower-cased identifier's prefix.  Only a
\* "gpt-" identifier is counted with an encoding of its own; an identifier of
\* the seven other families is counted with cl100k_base, the same count for
\* the same text whatever the family; any other identifier is counted by
\* words.
C12_StrategyByPrefix ==
    (call.op = "getTokenCount" /\ call.text # "")
    => LET lower == ToLower(call.model)
           tok == env.tok[1]
       IN  /\ tok.via = "dedicated" => HasPrefix(lower, "gpt-")
           /\ (\E prefix \in GenericPrefixes : HasPrefix(lower, prefix))
                 => /\ tok.via \in {"generic", "unavailable"}
                    /\ env.lib[1].generic
                          => /\ tok.via = "generic"
                             /\ ret.n = EncodeLen("cl100k_base", call.text)
           /\ (\A prefix \in FamilyPrefixes : ~HasPrefix(lower, prefix))
                 => /\ tok.via = "unknown"
                    /\ IsHeuristicCount(ret.n, WordCount(call.text, FALSE))

\* an identifier in capitals is taken for its family
C12_Witness ==
    /\ call.op = "getTokenCount"
    /\ call.model = "Gemini-Pro"
    /\ call.text = "a b c d"
    /\ env.tok[1].via = "generic"
    /\ ret.n = 7

\* C13: for a "gpt-" identifier whose own encoding is not found while
\* cl100k_base loads, the count is the cl100k_base count of the text, and
\* the cost of texts is returned without an error.
C13_DowngradeToGeneric ==
    /\ (/\ call.op = "getTokenCount"
        /\ call.text # ""
        /\ HasPrefix(ToLower(call.model), "gpt-")
        /\ env.lib[1] = [forModel |-> FALSE, generic |-> TRUE])
          => /\ ret.n = EncodeLen("cl100k_base", call.text)
             /\ env.tok[1].via = "generic"
    /\ (/\ call.op = "calculateCostFromStrings"
        /\ HasPrefix(ToLower(call.usageData.Model), "gpt-")
        /\ env.lib[1] = [forModel |-> FALSE, generic |-> TRUE])
          => /\ ret.err = "nil"
             /\ \A i \in 1..2 : env.tok[i].via \in {"empty", "generic"}

\* "GPT-4O" is unknown to the library: 7 tokens of cl100k_base, not the 5 of
\* the estimator
C13_Witness ==
    /\ call.op = "getTokenCount"
    /\ call.model = "GPT-4O"
    /\ call.text = "a b c d"
    /\ env.lib[1] = [forModel |-> FALSE, generic |-> TRUE]
    /\ env.dedicated = "o200k_base"
    /\ ret.n = 7

\* the transport took the request and answered with a readable 2xx response
Accepted(transport) ==
    /\ transport.kind = "response"
    /\ transport.readable
    /\ transport.status \in 200..299

\* the request of a call on this client can be built and serialised
Deliverable ==
    /\ env.marshal = "nil"
    /\ ~URLParseFails(client.baseURL \o "/api/v1/usage")

\* the texts of a SendUsageWithTokenString call in the order they are counted
TextsCounted(usageData) ==
    <<usageData.PromptString, usageData.OutputString,
      usageData.PromptString, usageData.OutputString>>

\* C14: for a model of a recognised family, when cl100k_base cannot be
\* loaded, every non-empty text is counted max(1, floor(words * 1.3)), and
\* SendUsageWithTokenString does not fail for it: it hands over a record with
\* these counts and returns nil exactly when the transport accepted it.
C14_EncodingUnavailable ==
    (/\ call.op = "SendUsageWithTokenString"
     /\ \E prefix \in FamilyPrefixes :
            HasPrefix(ToLower(call.usageData.Model), prefix)
     /\ \A i \in 1..2 : env.lib[i] = [forModel |-> FALSE, generic |-> FALSE])
    => LET texts == TextsCounted(call.usageData)
       IN  /\ Len(env.tok) = 4
           /\ \A i \in 1..4 :
                 IF texts[i] = "" THEN env.tok[i].n = 0
                 ELSE /\ env.tok[i].via = "unavailable"
                      /\ IsHeuristicCount(env.tok[i].n,
                                          WordCount(texts[i], FALSE))
           /\ ret.err # "failed to calculate cost from strings"
           /\ Deliverable
                 => /\ Len(wire) = 1
                    /\ wire[1].body.inputToken = env.tok[3].n
                    /\ wire[1].body.outputToken = env.tok[4].n
                    /\ ret.err = "nil" <=> Accepted(env.transport)

\* no encoding loaded, the four words of a claude prompt were reported as 5
\* tokens and the call succeeded
C14_Witness ==
    /\ call.op = "SendUsageWithTokenString"
    /\ call.usageData.Model = "claude-3-sonnet"
    /\ call.usageData.PromptString = "a b c d"
    /\ \A i \in 1..2 : ~env.lib[i].generic
    /\ Len(wire) = 1
    /\ wire[1].body.inputToken = 5
    /\ ret.err = "nil"

\* C15: a model without a price entry and of no tokenizer family makes no
\* report call fail: the call hands over a record priced 0.10 / 0.10 (its
\* texts counted by words) whenever the request can be built, and returns nil
\* whenever the transport accepts it.
C15_UnknownModelNoFailure ==
    (/\ call.op \in ReportOps
     /\ call.usageData.Model \notin DOMAIN ModelConst
     /\ \A prefix \in FamilyPrefixes :
            ~HasPrefix(ToLower(call.usageData.Model), prefix))
    => /\ ret.err \notin {"failed to calculate cost",
                          "failed to calculate cost from strings"}
       /\ Accepted(env.transport) => ret.err = "nil"
       /\ Deliverable
             => /\ Len(wire) = 1
                /\ wire[1].body.model = call.usageData.Model
                /\ DecMul(wire[1].body.amount, DecOfInt(10000)) =
                       DecOfInt(wire[1].body.inputToken
                                  + wire[1].body.outputToken)
       /\ call.op = "SendUsageWithTokenString"
             => \A i \in 1..Len(env.tok) :
                    LET text == TextsCounted(call.usageData)[i]
                    IN  IF text = "" THEN env.tok[i].n = 0
                        ELSE /\ env.tok[i].via = "unknown"
                             /\ IsHeuristicCount(env.tok[i].n,
                                                 WordCount(text, FALSE))

\* 1000 and 500 tokens of "unknown-model" were reported at 0.15 and accepted
C15_Witness ==
    /\ call.op = "SendUsage"
    /\ call.usageData.Model = "unknown-model"
    /\ call.usageData.PromptTokens = 1000
    /\ call.usageData.CompletionTokens = 500
    /\ Len(wire) = 1
    /\ wire[1].body.amount = Dec(15, 2)
    /\ env.transport.status = 200
    /\ ret.err = "nil"

\* C16: the price table is never written: in every reachable state it has
\* exactly the entries and prices of its initialisation, and a model priced
\* by default has no entry after its report.
C16_PriceTableImmutable ==
    /\ modelPricing = modelPricingInit
    /\ (call.op \in ReportOps /\ call.usageData.Model \notin DOMAIN ModelConst)
          => /\ ~PricingExists(modelPricing, call.usageData.Model)
             /\ call.usageData.Model \notin DOMAIN modelPricing

\* a report for "unknown-model" was priced by default and sent
C16_Witness ==
    /\ call.op = "SendUsage"
    /\ call.usageData.Model = "unknown-model"
    /\ call.usageData.PromptTokens = 1000
    /\ call.usageData.CompletionTokens = 500
    /\ Len(wire) = 1
    /\ wire[1].body.amount = Dec(15, 2)
    /\ client.level = "debug"
    /\ modelPricing = modelPricingInit

\* what the report call of this state gives when computed from nothing but
\* its own arguments, the client and its collaborators' answers
OutcomeAlone ==
    IF call.op = "SendUsage"
    THEN sendUsage(client, modelPricingInit, call.agentID, call.customerID,
                   call.indicator, call.usageData, env.marshal, env.transport)
    ELSE sendUsageWithTokenString(client, modelPricingInit, call.agentID,
                                  call.customerID, call.indicator,
                                  call.usageData, env.dedicated, env.lib,
                                  env.marshal, env.transport)

\* the steps of a report call: the call and its return
ReportStep == call.op \in ReportOps \/ call'.op \in ReportOps

\* C17: a report call, failed or not, leaves the client's apiKey, baseURL and
\* log level and the price table as they were, and what it returns and hands
\* to the transport is determined by its own arguments and its own
\* collaborators' answers, whatever calls were made before it.
C17_NoCrossCallState ==
    /\ [][ReportStep => UNCHANGED <<client, modelPricing>>]_vars
    /\ [](call.op \in ReportOps
            => /\ ret.err = OutcomeAlone.err
               /\ wire = OutcomeAlone.wire)

\* a report failed on a client with a URL and a log level of its own
C17_Witness ==
    /\ call.op = "SendUsageWithTokenString"
    /\ ret.err = "HTTP request failed"
    /\ client.baseURL = "http://localhost:8080"
    /\ client.level = "debug"
    /\ client.apiKey = "other-api-key"

\* what the report call in flight gives when it runs alone, with the same
\* answers of its collaborators
RunAlone(me) ==
    IF me.op = "SendUsage"
    THEN sendUsage(client, modelPricingInit, me.agentID, me.customerID,
                   me.indicator, me.usageData, "nil", me.transport)
    ELSE sendUsageWithTokenString(client, modelPricingInit, me.agentID,
                                  me.customerID, me.indicator, me.usageData,
                                  ConcDedicated, me.lib, "nil", me.transport)

\* a step of goroutine p writes nothing but p's own call
OwnWritesOnly ==
    /\ UNCHANGED <<client, modelPricing>>
    /\ \A p \in Procs :
          inflight'[p] # inflight[p]
             => \A q \in Procs \ {p} : inflight'[q] = inflight[q]

\* C18: report calls interleaved on one client do not interfere: each hands
\* the transport exactly the record, and returns exactly the error, it gives
\* when run alone, and no step of a call writes the client, the price table
\* or anything of another call.
C18_ConcurrentCallsIndependent ==
    /\ [][OwnWritesOnly]_vars
    /\ [](\A p \in Procs :
            inflight[p].pc = "done"
               => /\ inflight[p].wire = RunAlone(inflight[p]).wire
                  /\ inflight[p].err = RunAlone(inflight[p]).err)

\* a SendUsage of one goroutine has sent its record while a
\* SendUsageWithTokenString of the other is between its two countings
C18_Witness ==
    /\ inflight[1].pc = "done"
    /\ inflight[1].op = "SendUsage"
    /\ inflight[1].usageData.Model = "unknown-model"
    /\ Len(inflight[1].wire) = 1
    /\ inflight[1].wire[1].body.amount = Dec(15, 2)
    /\ inflight[1].wire[1].body.agentId = "agent-123"
    /\ inflight[2].pc = "count"
    /\ inflight[2].op = "SendUsageWithTokenString"
    /\ inflight[2].usageData.Model = "gpt-4o"

\* C19: calculateCost called twice with the same model and the same token
\* counts returns the same cost and error both times, whatever was called in
\* between and whatever the log level at either call.
C19_CostIsPure ==
    (/\ call.op = "calculateCost"
     /\ earlier.kept
     /\ earlier.model = call.model
     /\ earlier.usageData.PromptTokens = call.usageData.PromptTokens
     /\ earlier.usageData.CompletionTokens = call.usageData.CompletionTokens)
    => ret = earlier.ret

\* the same call made at info level and again at debug level
C19_Witness ==
    /\ call.op = "calculateCost"
    /\ earlier.kept
    /\ earlier.model = "gpt-4o"
    /\ call.model = "gpt-4o"
    /\ earlier.usageData = call.usageData
    /\ call.usageData.PromptTokens = 1000
    /\ call.usageData.CompletionTokens = 500
    /\ earlier.level = "info"
    /\ client.level = "debug"
    /\ ret.cost = Dec(75, 4)
    /\ earlier.ret.cost = Dec(75, 4)

\* C20: no cost is negative: every entry of the price table has
\* promptCost >= 0 and completionCost >= 0, calculateCost of token counts
\* >= 0 is >= 0 for every model, and so is the cost of texts, whose counts
\* are >= 0.
C20_CostNonNegative ==
    /\ \A key \in DOMAIN modelPricing :
          /\ DecNonNeg(modelPricing[key].PromptTokensCost)
          /\ DecNonNeg(modelPricing[key].CompletionTokensCost)
    /\ (/\ call.op = "calculateCost"
        /\ call.usageData.PromptTokens >= 0
        /\ call.usageData.CompletionTokens >= 0)
          => DecNonNeg(ret.cost)
    /\ call.op = "calculateCostFromStrings"
          => /\ \A i \in 1..Len(env.tok) : env.tok[i].n >= 0
             /\ DecNonNeg(ret.cost)

\* the cost of a text of gpt-4o is positive
C20_Witness ==
    /\ call.op = "calculateCostFromStrings"
    /\ call.model = "gpt-4o"
    /\ call.usageData.Model = "gpt-4o"
    /\ call.usageData.PromptString = "a b c d"
    /\ ret.cost.m > 0

\* s ends with suffix
HasSuffix(s, suffix) ==
    /\ Len(suffix) <= Len(s)
    /\ SubSeq(s, Len(s) - Len(suffix) + 1, Len(s)) = suffix

\* the identifiers that are no key of the price table but differ from one
\* only in letter case, or have one at their beginning or at their end, or
\* are the beginning or the end of one
NearMisses ==
    {model \in Models \ DOMAIN ModelConst :
        \E key \in DOMAIN ModelConst :
            \/ ToLower(key) = ToLower(model)
            \/ HasPrefix(key, model) \/ HasPrefix(model, key)
            \/ HasSuffix(key, model) \/ HasSuffix(model, key)}

\* C21: the price lookup is an exact, case-sensitive match: an identifier
\* that differs from a key of the price table only in letter case, or by
\* something before or after it, is priced 0.10 / 0.10 like any absent model,
\* also when the tokenizer's prefix match recognises its family.
C21_ExactCaseSensitiveLookup ==
    (call.op = "calculateCost" /\ call.model \in NearMisses)
    => DecMul(ret.cost, DecOfInt(10000)) =
           DecOfInt(call.usageData.PromptTokens
                      + call.usageData.CompletionTokens)

\* "GPT-4O" is counted as a GPT model and priced by default: 0.15, not the
\* 0.0075 of "gpt-4o"
C21_Witness ==
    /\ call.op = "calculateCost"
    /\ call.model = "GPT-4O"
    /\ call.model \in NearMisses
    /\ HasPrefix(ToLower(call.model), "gpt-")
    /\ call.usageData.PromptTokens = 1000
    /\ call.usageData.CompletionTokens = 500
    /\ ret.cost = Dec(15, 2)
    /\ {"gpt-4", "Sonnet-4.5", "gpt-4o-custom", "openai/gpt-4o"}
          \subseteq NearMisses

\* the branches of getTokenCount a model of this identifier can be counted by
ViaOf(model) ==
    IF HasPrefix(ToLower(model), "gpt-")
    THEN {"empty", "dedicated", "generic", "unavailable"}
    ELSE IF \E prefix \in GenericPrefixes : HasPrefix(ToLower(model), prefix)
    THEN {"empty", "generic", "unavailable"}
    ELSE {"empty", "unknown"}

\* the same for each model the report calls are exercised with
ViaOfReportModel == [model \in ReportModels |-> ViaOf(model)]

\* C22: SendUsageWithTokenString looks the price up and counts the tokens
\* under one and the same identifier, usageData.Model, which is also the
\* model of the record: the amount is the cost, at that model's prices, of
\* the counts taken for the cost, and all four counts are taken the way that
\* model's family is counted.
C22_OneModelIdentifier ==
    (call.op = "SendUsageWithTokenString" /\ wire # <<>>)
    => /\ wire[1].body.model = call.usageData.Model
       /\ Len(env.tok) = 4
       /\ AmountMatches(wire[1].body.amount, call.usageData.Model,
                        env.tok[1].n, env.tok[2].n)
       /\ \A i \in 1..4 :
             env.tok[i].via \in ViaOfReportModel[call.usageData.Model]

\* a gpt-4o report priced at gpt-4o's 0.0025 per 1000 prompt tokens and
\* counted with the encoding of gpt-4o
C22_Witness ==
    /\ call.op = "SendUsageWithTokenString"
    /\ call.usageData.Model = "gpt-4o"
    /\ call.usageData.PromptString = "a b c d"
    /\ call.usageData.OutputString = ""
    /\ Len(wire) = 1
    /\ wire[1].body.model = "gpt-4o"
    /\ env.dedicated = "o200k_base"
    /\ env.tok[1] = [n |-> 4, via |-> "dedicated"]
    /\ env.tok[3] = [n |-> 4, via |-> "dedicated"]
    /\ wire[1].body.inputToken = 4
    /\ wire[1].body.amount = Dec(1, 5)

\* |a - b| <= tolerance
Within(a, b, tolerance) ==
    /\ DecNonNeg(DecSub(DecAdd(b, tolerance), a))
    /\ DecNonNeg(DecSub(a, DecSub(b, tolerance)))

\* C23: calculateCost of 1000 prompt tokens and 500 completion tokens of
\* "gpt-4" is 60.0 within 0.0001, as TestCalculateCost expects.
C23_GPT4Cost ==
    (/\ call.op = "calculateCost"
     /\ call.model = "gpt-4"
     /\ call.usageData.PromptTokens = 1000
     /\ call.usageData.CompletionTokens = 500)
    => Within(ret.cost, Dec(60, 0), Dec(1, 4))

\* C24: NewClient(apiKey) returns a client with that apiKey and the base URL
\* "https://api.paylm.com", as TestNewClient expects.
C24_DefaultBaseURL ==
    call.op = "NewClient"
    => /\ client.apiKey = call.apiKey
       /\ client.baseURL = "https://api.paylm.com"

\* C27: every model the README lists with built-in pricing is counted with
\* a tiktoken encoding whenever the library can load its encodings, never by
\* the number of words.
C27_SupportedModelsUseEncoding ==
    (/\ call.op = "getTokenCount"
     /\ call.model \in DOMAIN ModelConst
     /\ call.text # ""
     /\ env.lib[1].generic)
    => env.tok[1].via \in {"dedicated", "generic"}

\* C28: a report call given a negative PromptTokens or CompletionTokens
\* returns an error and hands no record to the transport.
C28_InvalidUsageRejected ==
    (/\ call.op = "SendUsage"
     /\ \/ call.usageData.PromptTokens < 0
        \/ call.usageData.CompletionTokens < 0)
    => /\ ret.err # "nil"
       /\ wire = <<>>

\* C29: in every record SendUsageWithTokenString hands to the transport the
\* amount is calculateCost of the record's model, inputToken and outputToken,
\* also when the library answers differently while the cost is calculated
\* and while the counts of the record are taken.
C29_AmountOfRecordCounts ==
    (call.op = "SendUsageWithTokenString" /\ wire # <<>>)
    => LET body == wire[1].body
           counted == UsageData(body.serviceProvider, body.model,
                                body.inputToken, body.outputToken, 0)
       IN  body.amount = calculateCost(modelPricingInit, body.model, counted).cost

\* the operations that set the level of the client's logger
LevelSetters == {"SetLogLevel", "NewClient", "NewClientWithURL"}

\* C25: after SetLogLevel(L) the client's logger is at level L and a new
\* client's logger is at Info; GetLogger returns the client's own logger, at
\* the client's level; and no step other than SetLogLevel or the construction
\* of a client changes the level, so it stays L across the report calls
C25_LogLevelKept ==
    /\ [](call.op = "SetLogLevel" => client.level = call.level)
    /\ [](call.op \in {"NewClient", "NewClientWithURL"} => client.level = "info")
    /\ [](call.op = "GetLogger"
            => /\ ret.logger.ref = "c.logger"
               /\ ret.logger.level = client.level)
    /\ [][call'.op \notin LevelSetters => client'.level = client.level]_vars

\* GetLogger returns the logger at the level an earlier SetLogLevel gave it
C25_Witness ==
    /\ call.op = "GetLogger"
    /\ ret.logger.ref = "c.logger"
    /\ ret.logger.level = "debug"

\* the positions of a report call that has begun and not yet returned a result
Underway == {"cost", "count", "post"}

\* C26: every report call that has begun reaches its return, with success or
\* a failure, and each of its steps can be taken whatever the other calls on
\* the client are doing: the only thing a call waits for is the answer (or
\* the timeout) of its own transport call
C26_ReportTerminates ==
    /\ \A p \in Procs :
          (inflight[p].pc \in Underway) ~> (inflight[p].pc = "done")
    /\ [](\A p \in Procs :
            /\ inflight[p].pc = "cost" => ENABLED CostStep(p)
            /\ inflight[p].pc = "count" => ENABLED CountStep(p)
            /\ inflight[p].pc = "post" => ENABLED PostStep(p))

\* a call has returned the transport's failure while the other call on the
\* client is still waiting for its own transport
C26_Witness ==
    /\ inflight[1].pc = "done"
    /\ inflight[1].err = "HTTP request failed"
    /\ inflight[2].pc = "post"

\* who else could have made the call: another caller (agentID, customerID,
\* indicator, ServiceProvider, TotalTokens), on a client with another API key
\* and another log level
Counterparts ==
    [who : Callers, apiKey : ApiKeys, level : LogLevels]

\* what the report call of the state returns when x makes it, with the same
\* model, the same counts or texts and the same answers of the collaborators
ReportAs(x) ==
    LET cl == [client EXCEPT !.apiKey = x.apiKey, !.level = x.level]
    IN  IF call.op = "SendUsage"
        THEN sendUsage(cl, modelPricing, x.who.agentID, x.who.customerID,
                       x.who.indicator,
                       UsageData(x.who.ServiceProvider, call.usageData.Model,
                                 call.usageData.PromptTokens,
                                 call.usageData.CompletionTokens,
                                 x.who.TotalTokens),
                       env.marshal, env.transport)
        ELSE sendUsageWithTokenString(cl, modelPricing, x.who.agentID,
                       x.who.customerID, x.who.indicator,
                       UsageDataWithStrings(x.who.ServiceProvider,
                                            call.usageData.Model,
                                            call.usageData.PromptString,
                                            call.usageData.OutputString),
                       env.dedicated, env.lib, env.marshal, env.transport)

\* the json tags of APIRequest
RecordFields ==
    {"agentId", "customerId", "indicator", "amount", "inputToken",
     "outputToken", "model", "serviceProvider"}

\* C30: the amount, inputToken and outputToken of the record a report call
\* submits are the same whoever makes the call: another agentID, customerID,
\* indicator, ServiceProvider, TotalTokens, API key or log level, with the
\* same model and the same counts or texts, gives a record with the same
\* three values; and the record has no field for TotalTokens
C30_AmountIndependentOfCaller ==
    (call.op \in ReportOps /\ wire # <<>>)
    => /\ DOMAIN wire[1].body = RecordFields
       /\ \A x \in Counterparts :
            \A r \in {ReportAs(x)} :
                /\ r.wire # <<>>
                /\ r.wire[1].body.amount = wire[1].body.amount
                /\ r.wire[1].body.inputToken = wire[1].body.inputToken
                /\ r.wire[1].body.outputToken = wire[1].body.outputToken

\* a submitted SendUsage record of a caller whose TotalTokens is not the sum
\* of the two counts: the record carries the two counts and a positive amount
C30_Witness ==
    /\ call.op = "SendUsage"
    /\ wire # <<>>
    /\ call.usageData.TotalTokens = 1500
    /\ call.usageData.PromptTokens + call.usageData.CompletionTokens # 1500
    /\ call.usageData.PromptTokens > 0
    /\ wire[1].body.inputToken = call.usageData.PromptTokens
    /\ wire[1].body.amount # Dec(0, 0)
====
